---- MODULE Spec2Model ----
(***************************************************************************)
(* A model of flatjson.parseJSON (src/flatjson.go): the single-pass walk   *)
(* over the token stream of encoding/json's Decoder that flattens a JSON   *)
(* document into a sequence of key-value pairs.                            *)
(*                                                                         *)
(* One step of the model is one iteration of the loop of parseJSON: the    *)
(* call dec.Token() and the switch on the token it returned.  The reader   *)
(* is the environment: it supplies, token by token, any stream the         *)
(* decoder accepts, and may end or fail at any token boundary.             *)
(***************************************************************************)
EXTENDS Integers, Sequences, FiniteSets, TLC

\* ---------------------------------------------------------------- bounds

\* The longest token stream the reader supplies.
MaxTokens == 8

\* The most elements of a flat array of scalars the reader supplies (such a
\* stream may be longer than MaxTokens).
MaxElems == 11

\* The most top-level values the reader supplies back to back.
MaxDocs == 2

\* The most objects nested in one another in a document of nested
\* single-entry objects around one scalar (such a stream may be longer than
\* MaxTokens).
MaxNest == 21

\* The longest token stream each of two concurrent calls is supplied.
MaxConcTokens == 3

\* ---------------------------------------------------------------- tokens

\* json.Delim values (flatjson.go, 77-81).
lbrace  == [t |-> "delim", v |-> <<"{">>]
rbrace  == [t |-> "delim", v |-> <<"}">>]
lsquare == [t |-> "delim", v |-> <<"[">>]
rsquare == [t |-> "delim", v |-> <<"]">>]

\* A Go string is modelled as the sequence of its characters: "a.b" is
\* <<"a", ".", "b">> and "" is <<>>.

\* The path delimiter.
pathd == <<".">>

\* A string token, and a number token (float64 in Go), by its text.
Str(s) == [t |-> "string", v |-> s]
Num(s) == [t |-> "number", v |-> s]

\* The key strings and the scalar values of the documents read.
Keys    == {<<"a">>, <<"b">>}
Scalars == {Str(<<"x">>), Num(<<"1">>)}

\* The errors, other than io.EOF, the decoder may report.
Errs == {"syntax", "io"}

\* The nil interface value: the Value of a Pair built without one.
Nil == [t |-> "null", v |-> <<>>]

\* ------------------------------------------------------------- variables

VARIABLES
    input,   \* the tokens dec.Token() has returned so far
    dec,     \* the decoder: open containers, key expected, values completed
    pc,      \* "loop", "returned" or "panic"
    pos, path, inmap, inarr, empty, onkey, arridx, arrkey, pairs, err,
    ret,     \* what parseJSON returned: [pairs, err]
    other    \* a second call, suspended between two iterations of its loop:
             \* its reader, decoder and local state ([on |-> FALSE]: none)

vars == <<input, dec, pc, pos, path, inmap, inarr, empty, onkey, arridx,
          arrkey, pairs, err, ret, other>>

walker == <<pos, path, inmap, inarr, empty, onkey, arridx, arrkey, pairs>>

\* --------------------------------------------------------------- helpers

\* The length of the pre-allocated path stack.
InitialPathLen == 10

\* make([]string, n)
MakeStrings(n) == [i \in 1..n |-> <<>>]

\* The byte '0'.
Byte0 == 48

\* The text of one byte, for the bytes an index counter can reach here:
\* '0' (48) up to 'O' (79).
ByteChars == <<"0", "1", "2", "3", "4", "5", "6", "7", "8", "9", ":", ";",
               "<", "=", ">", "?", "@", "A", "B", "C", "D", "E", "F", "G",
               "H", "I", "J", "K", "L", "M", "N", "O">>

ByteStr(b) ==
    IF b >= Byte0 /\ b < Byte0 + Len(ByteChars) THEN ByteChars[b - Byte0 + 1]
    ELSE "\\x"

\* string(arridx), arridx being the bytes '[', b, ']'.
ArrIdxStr(b) == <<"[", ByteStr(b), "]">>

\* arridx[1]++ on a byte.
IncByte(b) == (b + 1) % 256

\* strings.Join(elems, sep)
RECURSIVE Join(_, _)
Join(elems, sep) ==
    IF Len(elems) = 0 THEN <<>>
    ELSE IF Len(elems) = 1 THEN elems[1]
    ELSE elems[1] \o sep \o Join(Tail(elems), sep)

\* path[:n]
Slice(p, n) == SubSeq(p, 1, n)

\* Whether path[:n] is in range.
SliceOK(p, n) == 0 <= n /\ n <= Len(p)

\* Whether path[i] is in range.
IndexOK(p, i) == 0 <= i /\ i < Len(p)

\* A variant of Grow that leaves out the copy.
GrowNoCopy(p, n) == [i \in 1..n |-> <<>>]

\* dest = make([]string, n); copy(dest, path); path = dest
Grow(p, n) == [i \in 1..n |-> IF i <= Len(p) THEN p[i] ELSE <<>>]

\* ------------------------------------------------------------ the decoder

\* The innermost open container of the decoder, "" at the top level.
Top(d) == IF Len(d.open) = 0 THEN "" ELSE d.open[Len(d.open)]

\* What the decoder expects once the value just read is complete.
AfterValue(open, docs) ==
    [open |-> open,
     key  |-> (Len(open) > 0 /\ open[Len(open)] = "{"),
     docs |-> IF Len(open) = 0 THEN docs + 1 ELSE docs]

\* The tokens the decoder can return next without an error.
Legal(d, tok) ==
    IF d.key THEN tok = rbrace \/ (tok.t = "string" /\ tok.v \in Keys)
    ELSE \/ tok \in Scalars \cup {lbrace, lsquare}
         \/ tok = rsquare /\ Top(d) = "["

\* The decoder after it has returned tok.
DecNext(d, tok) ==
    IF d.key /\ tok # rbrace THEN [d EXCEPT !.key = FALSE]
    ELSE IF tok = lbrace THEN [d EXCEPT !.open = Append(@, "{"), !.key = TRUE]
    ELSE IF tok = lsquare THEN [d EXCEPT !.open = Append(@, "["), !.key = FALSE]
    ELSE IF tok \in {rbrace, rsquare}
         THEN AfterValue(SubSeq(d.open, 1, Len(d.open) - 1), d.docs)
    ELSE AfterValue(d.open, d.docs)

\* Whether s is the start of a flat array of scalars.
FlatArray(s) ==
    IF Len(s) = 0 THEN TRUE
    ELSE s[1] = lsquare /\ \A i \in 2..Len(s) : s[i] \in Scalars

\* The document of k objects nested under the key "a" around the scalar v:
\* {"a": {"a": ... v ... }}.
Deep(k, v) ==
    [i \in 1..(3 * k + 1) |->
        IF i <= 2 * k THEN (IF i % 2 = 1 THEN lbrace ELSE Str(<<"a">>))
        ELSE IF i = 2 * k + 1 THEN v
        ELSE rbrace]

\* Whether s is the start of t.
IsPrefix(s, t) == Len(s) <= Len(t) /\ SubSeq(t, 1, Len(s)) = s

\* The positions of s that are not on the chain { "a" { "a" { ...
OffChain(s) ==
    {i \in 1..Len(s) : s[i] # (IF i % 2 = 1 THEN lbrace ELSE Str(<<"a">>))}

\* Whether s is the start of a document of at most MaxNest nested
\* single-entry objects: of Deep(k, v) for some k and v.
DeepStart(s) ==
    IF OffChain(s) = {} THEN Len(s) <= 2 * MaxNest
    ELSE LET m == CHOOSE i \in OffChain(s) : \A j \in OffChain(s) : i <= j
             k == (m - 1) \div 2
         IN  /\ m % 2 = 1
             /\ k >= 1 /\ k <= MaxNest
             /\ s[m] \in Scalars
             /\ IsPrefix(s, Deep(k, s[m]))

\* Whether the reader still holds tok.
Budget(tok) ==
    IF other.on THEN Len(input) < MaxConcTokens
    ELSE IF Len(input) < MaxTokens THEN TRUE
    ELSE IF FlatArray(input)
    THEN IF tok \in Scalars THEN Len(input) < MaxElems + 1
         ELSE tok = rsquare /\ Len(input) <= MaxElems + 1
    ELSE DeepStart(Append(input, tok))

\* tok, err = dec.Token() with err == nil.
Deliver(tok) ==
    /\ pc = "loop"
    /\ Legal(dec, tok)
    /\ Top(dec) = "" => dec.docs < MaxDocs
    /\ Budget(tok)
    /\ input' = Append(input, tok)
    /\ dec' = DecNext(dec, tok)
    /\ err' = "nil"
    /\ other' = other

\* ------------------------------------------------------------------ Init

InitCall ==
    /\ input = <<>>
    /\ dec = [open |-> <<>>, key |-> FALSE, docs |-> 0]
    /\ pc = "loop"
    /\ pos = -1
    /\ path = MakeStrings(InitialPathLen)
    /\ inmap = FALSE
    /\ inarr = FALSE
    /\ empty = FALSE
    /\ onkey = FALSE
    /\ arridx = Byte0
    /\ arrkey = <<>>
    /\ pairs = <<>>
    /\ err = "nil"
    /\ ret = [pairs |-> <<>>, err |-> "nil"]

\* One call of parseJSON.
Init == InitCall /\ other = [on |-> FALSE]

\* --------------------------------------------------------------- actions

\* A goroutine panic: the call never returns.
Panic ==
    /\ pc' = "panic"
    /\ UNCHANGED <<walker, ret>>

\* &Pair{Key: strings.Join(path[:pos+1], pathd)} appended to pairs.
WithSelfPair(ps, p, n) == Append(ps, [Key |-> Join(Slice(p, n), pathd), Value |-> Nil])

\* case lbrace
LBrace ==
    /\ Deliver(lbrace)
    /\ empty' = TRUE
    /\ inmap' = TRUE
    /\ onkey' = TRUE
    /\ pos' = pos + 1
    /\ path' = IF pos + 1 = Len(path) THEN Grow(path, (pos + 1) * 2) ELSE path
    /\ UNCHANGED <<inarr, arridx, arrkey, pairs, pc, ret>>

\* The condition under which closing an object emits a pair for it.
RBraceEmits == empty /\ pos > 0

\* case rbrace
RBrace ==
    /\ Deliver(rbrace)
    /\ IF RBraceEmits /\ ~SliceOK(path, pos + 1) THEN Panic
       ELSE /\ pairs' = IF RBraceEmits THEN WithSelfPair(pairs, path, pos + 1)
                        ELSE pairs
            /\ inmap' = FALSE
            /\ onkey' = TRUE
            /\ pos' = pos - 1
            /\ UNCHANGED <<path, inarr, empty, arridx, arrkey, pc, ret>>

\* The prefix recorded for the elements of an array being entered.
ArrKey == IF pos > 0 THEN path[pos + 1] ELSE <<>>

\* case lsquare
LSquare ==
    /\ Deliver(lsquare)
    /\ empty' = TRUE
    /\ inarr' = TRUE
    /\ arridx' = Byte0
    /\ arrkey' = ArrKey
    /\ UNCHANGED <<pos, path, inmap, onkey, pairs, pc, ret>>

\* The condition under which closing an array emits a pair for it.
RSquareEmits == empty /\ pos >= 0

\* case rsquare
RSquare ==
    /\ Deliver(rsquare)
    /\ IF RSquareEmits /\ ~SliceOK(path, pos + 1) THEN Panic
       ELSE /\ pairs' = IF RSquareEmits THEN WithSelfPair(pairs, path, pos + 1)
                        ELSE pairs
            /\ inarr' = FALSE
            /\ UNCHANGED <<pos, path, inmap, empty, onkey, arridx, arrkey, pc, ret>>

\* The segment written for an array element.
ElemSegment == arrkey \o ArrIdxStr(arridx)

\* A variant of StoreKey that appends the key to the segment in place.
StoreKeyAppend(tok) ==
    IF ~IndexOK(path, pos) \/ tok.t # "string" THEN Panic
    ELSE /\ empty' = FALSE
         /\ path' = [path EXCEPT ![pos + 1] = @ \o tok.v]
         /\ onkey' = FALSE
         /\ UNCHANGED <<pos, inmap, inarr, arridx, arrkey, pairs, pc, ret>>

\* default, onkey: path[pos] = tok.(string); onkey = false
StoreKey(tok) ==
    IF ~IndexOK(path, pos) \/ tok.t # "string" THEN Panic
    ELSE /\ empty' = FALSE
         /\ path' = [path EXCEPT ![pos + 1] = tok.v]
         /\ onkey' = FALSE
         /\ UNCHANGED <<pos, inmap, inarr, arridx, arrkey, pairs, pc, ret>>

\* A variant of EmitValue that drops a value read outside every container.
EmitValueInsideOnly(tok) ==
    LET p1 == IF inarr /\ pos < 0 THEN 0 ELSE pos
    IN  IF (inarr /\ ~IndexOK(path, p1)) \/ ~SliceOK(path, p1 + 1) THEN Panic
        ELSE LET path1 == IF inarr THEN [path EXCEPT ![p1 + 1] = ElemSegment]
                          ELSE path
             IN  /\ empty' = FALSE
                 /\ pos' = p1
                 /\ path' = path1
                 /\ arridx' = IF inarr THEN IncByte(arridx) ELSE arridx
                 /\ onkey' = IF ~inarr /\ inmap THEN TRUE ELSE onkey
                 /\ pairs' = IF p1 < 0 THEN pairs
                             ELSE Append(pairs, [Key   |-> Join(Slice(path1, p1 + 1), pathd),
                                                 Value |-> tok])
                 /\ UNCHANGED <<inmap, inarr, arrkey, pc, ret>>

\* default, not onkey: the token is a value, and a pair is appended for it.
EmitValue(tok) ==
    LET p1 == IF inarr /\ pos < 0 THEN 0 ELSE pos
    IN  IF (inarr /\ ~IndexOK(path, p1)) \/ ~SliceOK(path, p1 + 1) THEN Panic
        ELSE LET path1 == IF inarr THEN [path EXCEPT ![p1 + 1] = ElemSegment]
                          ELSE path
             IN  /\ empty' = FALSE
                 /\ pos' = p1
                 /\ path' = path1
                 /\ arridx' = IF inarr THEN IncByte(arridx) ELSE arridx
                 /\ onkey' = IF ~inarr /\ inmap THEN TRUE ELSE onkey
                 /\ pairs' = Append(pairs, [Key   |-> Join(Slice(path1, p1 + 1), pathd),
                                            Value |-> tok])
                 /\ UNCHANGED <<inmap, inarr, arrkey, pc, ret>>

\* default: keys and values
Default ==
    \E tok \in Scalars \cup {Str(k) : k \in Keys} :
        /\ Deliver(tok)
        /\ IF onkey THEN StoreKey(tok) ELSE EmitValue(tok)

\* A variant of ReturnOnError that hands out the pairs accumulated so far.
ReturnOnErrorPartial(e) == [pairs |-> pairs, err |-> e]

\* What parseJSON returns when dec.Token() fails with e.
ReturnOnError(e) == [pairs |-> <<>>, err |-> e]

\* What parseJSON returns at io.EOF.
ReturnAtEOF == [pairs |-> pairs, err |-> "nil"]

\* err == io.EOF: break, return pairs, nil
EndOfStream ==
    /\ pc = "loop"
    /\ err' = "EOF"
    /\ pc' = "returned"
    /\ ret' = ReturnAtEOF
    /\ UNCHANGED <<input, dec, walker, other>>

\* err != nil: return nil, err
TokenError ==
    \E e \in Errs :
        /\ pc = "loop"
        /\ err' = e
        /\ pc' = "returned"
        /\ ret' = ReturnOnError(e)
        /\ UNCHANGED <<input, dec, walker, other>>

Next ==
    \/ LBrace
    \/ RBrace
    \/ LSquare
    \/ RSquare
    \/ Default
    \/ EndOfStream
    \/ TokenError

Spec == Init /\ [][Next]_vars

\* ------------------------------------------------------ two concurrent calls

\* Two calls of parseJSON on independent readers, on two goroutines.  Every
\* variable of the var block of parseJSON, its decoder and its reader are
\* the call's own; the package-level lbrace, rbrace, lsquare, rsquare and
\* pathd are only read.  The scheduler may switch between the goroutines
\* between any two iterations.

\* The call in progress, as it is suspended.
Suspended ==
    [on |-> TRUE, input |-> input, dec |-> dec, pc |-> pc, pos |-> pos,
     path |-> path, inmap |-> inmap, inarr |-> inarr, empty |-> empty,
     onkey |-> onkey, arridx |-> arridx, arrkey |-> arrkey, pairs |-> pairs,
     err |-> err, ret |-> ret]

\* A variant of ResumedArridx: one index buffer for all calls.
SharedArridx == arridx

\* The index buffer the resumed call goes on with: its own.
ResumedArridx == other.arridx

\* The scheduler suspends the call in progress and resumes the other one.
Switch ==
    /\ other.on
    /\ other' = Suspended
    /\ input' = other.input
    /\ dec' = other.dec
    /\ pc' = other.pc
    /\ pos' = other.pos
    /\ path' = other.path
    /\ inmap' = other.inmap
    /\ inarr' = other.inarr
    /\ empty' = other.empty
    /\ onkey' = other.onkey
    /\ arridx' = ResumedArridx
    /\ arrkey' = other.arrkey
    /\ pairs' = other.pairs
    /\ err' = other.err
    /\ ret' = other.ret

ConcInit == InitCall /\ other = Suspended

ConcNext == Next \/ Switch

ConcSpec == ConcInit /\ [][ConcNext]_vars

\* ------------------------------------------------ parseJSON as a function

\* The walk of parseJSON over a whole token stream at once: the local state
\* as a record, the switch as a function of the record and the token, and
\* the loop as the fold of that function over the stream.  This is what one
\* call, run alone on the stream, computes.

WalkInit ==
    [pos |-> -1, path |-> MakeStrings(InitialPathLen), inmap |-> FALSE,
     inarr |-> FALSE, empty |-> FALSE, onkey |-> FALSE, arridx |-> Byte0,
     arrkey |-> <<>>, pairs |-> <<>>, pc |-> "loop"]

\* case json.Delim
WalkDelim(w, tok) ==
    IF tok = lbrace
    THEN [w EXCEPT !.empty = TRUE, !.inmap = TRUE, !.onkey = TRUE,
                   !.pos = w.pos + 1,
                   !.path = IF w.pos + 1 = Len(w.path)
                            THEN Grow(w.path, (w.pos + 1) * 2) ELSE w.path]
    ELSE IF tok = rbrace
    THEN [w EXCEPT !.pairs = IF w.empty /\ w.pos > 0
                             THEN WithSelfPair(w.pairs, w.path, w.pos + 1)
                             ELSE w.pairs,
                   !.inmap = FALSE, !.onkey = TRUE, !.pos = w.pos - 1]
    ELSE IF tok = lsquare
    THEN [w EXCEPT !.empty = TRUE, !.inarr = TRUE, !.arridx = Byte0,
                   !.arrkey = IF w.pos > 0 THEN w.path[w.pos + 1] ELSE <<>>]
    ELSE [w EXCEPT !.pairs = IF w.empty /\ w.pos >= 0
                             THEN WithSelfPair(w.pairs, w.path, w.pos + 1)
                             ELSE w.pairs,
                   !.inarr = FALSE]

\* default
WalkDefault(w, tok) ==
    IF w.onkey
    THEN IF ~IndexOK(w.path, w.pos) \/ tok.t # "string"
         THEN [w EXCEPT !.pc = "panic"]
         ELSE [w EXCEPT !.empty = FALSE, !.path[w.pos + 1] = tok.v,
                        !.onkey = FALSE]
    ELSE LET p1    == IF w.inarr /\ w.pos < 0 THEN 0 ELSE w.pos
             path1 == IF w.inarr
                      THEN [w.path EXCEPT ![p1 + 1] = w.arrkey \o ArrIdxStr(w.arridx)]
                      ELSE w.path
         IN  [w EXCEPT !.empty = FALSE, !.pos = p1, !.path = path1,
                       !.arridx = IF w.inarr THEN IncByte(w.arridx) ELSE w.arridx,
                       !.onkey = IF ~w.inarr /\ w.inmap THEN TRUE ELSE w.onkey,
                       !.pairs = Append(w.pairs,
                                        [Key   |-> Join(Slice(path1, p1 + 1), pathd),
                                         Value |-> tok])]

\* One iteration of the loop on the token tok.
Walk(w, tok) ==
    IF w.pc # "loop" THEN w
    ELSE IF tok.t = "delim" THEN WalkDelim(w, tok)
    ELSE WalkDefault(w, tok)

\* The state of a call that has read the stream s.
RECURSIVE Alone(_)
Alone(s) ==
    IF Len(s) = 0 THEN WalkInit
    ELSE Walk(Alone(SubSeq(s, 1, Len(s) - 1)), s[Len(s)])

\* The local state of the call in progress, as a record.
Current ==
    [pos |-> pos, path |-> path, inmap |-> inmap, inarr |-> inarr,
     empty |-> empty, onkey |-> onkey, arridx |-> arridx, arrkey |-> arrkey,
     pairs |-> pairs, pc |-> IF pc = "returned" THEN "loop" ELSE pc]

\* ------------------------------------------------- the reference flattening

\* What the documentation asks of the walk, computed from the token stream
\* alone: a stack with one frame per open container (its kind, the path
\* segment of the child being read, the number of children begun, whether a
\* key is expected, the keys seen), and the pairs due.

Digits == <<"0", "1", "2", "3", "4", "5", "6", "7", "8", "9">>

\* n as a decimal numeral.
RECURSIVE Decimal(_)
Decimal(n) ==
    IF n < 10 THEN <<Digits[n + 1]>>
    ELSE Decimal(n \div 10) \o <<Digits[(n % 10) + 1]>>

\* The path segment of the element at index n of an array.
IndexSeg(n) == <<"[">> \o Decimal(n) \o <<"]">>

NewFrame(kind) ==
    [kind |-> kind, seg |-> <<>>, n |-> 0, key |-> (kind = "{"), keys |-> {}]

\* The '.'-join of the segments of the frames of stk.
PathOf(stk) == Join([i \in 1..Len(stk) |-> stk[i].seg], pathd)

\* stk once a child value of its innermost frame begins.
Entered(stk) ==
    IF Len(stk) = 0 THEN stk
    ELSE LET f == stk[Len(stk)]
         IN  [stk EXCEPT ![Len(stk)] =
                 IF f.kind = "[" THEN [f EXCEPT !.seg = IndexSeg(f.n), !.n = f.n + 1]
                 ELSE [f EXCEPT !.n = f.n + 1]]

\* stk once a child value of its innermost frame is complete.
Completed(stk) ==
    IF Len(stk) = 0 THEN stk
    ELSE [stk EXCEPT ![Len(stk)].key = (stk[Len(stk)].kind = "{")]

RefInit == [stack |-> <<>>, out |-> <<>>, emit |-> <<>>, dup |-> FALSE, docs |-> 0]

RefStep(st, tok) ==
    LET stk == st.stack
        d   == Len(stk)
    IN  IF d > 0 /\ stk[d].key /\ tok # rbrace
        THEN \* a key of the innermost object
             [st EXCEPT !.stack = [stk EXCEPT ![d].seg = tok.v,
                                              ![d].key = FALSE,
                                              ![d].keys = @ \cup {tok.v}],
                        !.emit = <<>>,
                        !.dup = @ \/ tok.v \in stk[d].keys]
        ELSE IF tok \in {lbrace, lsquare}
        THEN [st EXCEPT !.stack = Append(Entered(stk), NewFrame(IF tok = lbrace THEN "{" ELSE "[")),
                        !.emit = <<>>]
        ELSE IF tok \in {rbrace, rsquare}
        THEN LET rest == SubSeq(stk, 1, d - 1)
                 self == IF stk[d].n = 0 /\ d > 1
                         THEN <<[Key |-> PathOf(rest), Value |-> Nil]>>
                         ELSE <<>>
             IN  [st EXCEPT !.stack = Completed(rest),
                            !.emit = self,
                            !.out = @ \o self,
                            !.docs = IF d = 1 THEN @ + 1 ELSE @]
        ELSE \* a scalar value
             LET leaf == <<[Key |-> PathOf(Entered(stk)), Value |-> tok]>>
             IN  [st EXCEPT !.stack = Completed(Entered(stk)),
                            !.emit = leaf,
                            !.out = @ \o leaf,
                            !.docs = IF d = 0 THEN @ + 1 ELSE @]

RECURSIVE Ref(_)
Ref(s) ==
    IF Len(s) = 0 THEN RefInit
    ELSE RefStep(Ref(SubSeq(s, 1, Len(s) - 1)), s[Len(s)])

\* The number of leaf positions of the document s.
LeafCount(s) == Len(Ref(s).out)

\* ---------------------------------------------------------------- claims

\* parseJSON returned without an error.
ReturnedOK == pc = "returned" /\ ret.err = "nil"

\* The stream read is exactly one well-formed document.
OneDocument == dec.docs = 1 /\ Len(dec.open) = 0

\* A step of the loop that consumed a token of the first document and did
\* not panic.
FirstDocStep == dec.docs = 0 /\ input' # input /\ pc' = "loop"

Last(s) == s[Len(s)]

\* s ends with suf.
EndsWith(s, suf) ==
    Len(suf) <= Len(s) /\ SubSeq(s, Len(s) - Len(suf) + 1, Len(s)) = suf

\* The keys of ps.
KeysOf(ps) == {ps[i].Key : i \in 1..Len(ps)}

\* mapPairs.MarshalJSON: one field per Key, the last value written winning.
FlatMap(ps) ==
    [k \in KeysOf(ps) |->
        ps[CHOOSE i \in 1..Len(ps) :
              ps[i].Key = k /\ \A j \in (i + 1)..Len(ps) : ps[j].Key # k].Value]

\* C1: for a well-formed document, the number of pairs returned equals the
\* number of leaf positions of the document (one per scalar, one per empty
\* non-root container).
C1_PairCountIsLeafCount ==
    (ReturnedOK /\ OneDocument) => Len(ret.pairs) = LeafCount(input)

\* C2: the pair emitted for a scalar leaf has the '.'-join of the segments
\* of the containers enclosing the leaf as its Key.
C2_ScalarKeyIsPath ==
    [][(FirstDocStep /\ Last(input') \in Scalars /\ Ref(input').emit # <<>>
            /\ pairs' # pairs)
        => Last(pairs').Key = Ref(input').emit[1].Key]_vars

\* C3: the i-th scalar element of an array that is the value of key k of an
\* object is emitted with a key ending in k.[i]; for an array under key k of
\* the root object the key is exactly k.[i].
C3_ArrayUnderKey ==
    [][(FirstDocStep /\ Last(input') \in Scalars /\ Ref(input').emit # <<>>
            /\ Len(dec.open) >= 2
            /\ dec.open[Len(dec.open)] = "["
            /\ dec.open[Len(dec.open) - 1] = "{")
        => LET stk == Ref(input).stack
               d   == Len(stk)
               suf == stk[d - 1].seg \o pathd \o IndexSeg(stk[d].n)
           IN  /\ Len(pairs') = Len(pairs) + 1
               /\ Last(pairs').Value = Last(input')
               /\ EndsWith(Last(pairs').Key, suf)
               /\ d = 2 => Last(pairs').Key = suf]_vars

\* C4: closing an empty object or array that is not the document root emits
\* exactly one pair, with a null Value and the container's own path as Key.
C4_EmptyContainerPair ==
    [][(FirstDocStep /\ Last(input') \in {rbrace, rsquare}
            /\ Ref(input').emit # <<>>)
        => pairs' = pairs \o Ref(input').emit]_vars

\* C5: closing the document root emits no pair, so {} and [] flatten to no
\* pairs.
C5_RootEmitsNoPair ==
    [][(FirstDocStep /\ Last(input') \in {rbrace, rsquare}
            /\ Len(dec.open) = 1)
        => pairs' = pairs]_vars

\* C6: when the tokenizer reports a failure, parseJSON returns that error
\* unchanged and no pairs, whatever it had accumulated.
C6_ErrorReturnsNoPairs ==
    (pc = "returned" /\ err \in Errs) => (ret.err = err /\ ret.pairs = <<>>)

\* A failure reported after pairs were accumulated.
C6_Witness ==
    /\ pc = "returned"
    /\ err \in Errs
    /\ Len(pairs) >= 2
    /\ ret.err = err
    /\ ret.pairs = <<>>

\* C7: at end-of-stream with a container still open, parseJSON returns an
\* error and no pairs.
C7_TruncatedIsError ==
    (pc = "returned" /\ err = "EOF" /\ Len(dec.open) > 0)
        => (ret.err # "nil" /\ ret.pairs = <<>>)

\* C8: the walk over a well-formed document never panics.
C8_NoPanic ==
    (dec.docs = 0 \/ OneDocument) => pc # "panic"

\* C9: in an array of n scalars the element at position i is emitted with
\* the segment [i], i in decimal.
C9_DecimalIndex ==
    (ReturnedOK /\ OneDocument /\ FlatArray(SubSeq(input, 1, Len(input) - 1))
            /\ Len(input) >= 2 /\ Last(input) = rsquare)
        => /\ Len(ret.pairs) = Len(input) - 2
           /\ \A i \in 1..Len(ret.pairs) : ret.pairs[i].Key = IndexSeg(i - 1)

\* C10: for a well-formed document without duplicate keys, the Keys of the
\* pairs returned are pairwise distinct, so the flat map has one field per
\* pair.
C10_KeysDistinct ==
    (ReturnedOK /\ OneDocument /\ ~Ref(input).dup)
        => /\ \A i, j \in 1..Len(ret.pairs) :
                 ret.pairs[i].Key = ret.pairs[j].Key => i = j
           /\ Cardinality(DOMAIN FlatMap(ret.pairs)) = Len(ret.pairs)

\* C11: a document that is one bare top-level scalar flattens to exactly one
\* pair, whose Key is the empty string and whose Value is the scalar.
C11_BareScalar ==
    (ReturnedOK /\ Len(input) = 1 /\ input[1] \in Scalars)
        => ret.pairs = <<[Key |-> <<>>, Value |-> input[1]]>>

\* A bare scalar was read and parseJSON returned.
C11_Witness ==
    /\ ReturnedOK
    /\ input = <<Num(<<"1">>)>>
    /\ Len(ret.pairs) = 1

\* What a call run alone returns for the stream s when its decoder ends
\* with e.
AloneReturn(s, e) ==
    IF e = "EOF" THEN [pairs |-> Alone(s).pairs, err |-> "nil"]
    ELSE [pairs |-> <<>>, err |-> e]

\* The local state and the result of the call c (a record as Suspended
\* builds it) are those of a call run alone on the stream c has read.
AsAlone(c) ==
    /\ [f \in DOMAIN WalkInit |-> IF f = "pc" /\ c.pc = "returned" THEN "loop"
                                   ELSE c[f]]
          = Alone(c.input)
    /\ c.pc = "returned" => c.ret = AloneReturn(c.input, c.err)

\* C12: two calls running concurrently on independent streams, their steps
\* interleaved in any order, each compute and return what they do alone.
C12_CallsIndependent ==
    other.on => (AsAlone(Suspended) /\ AsAlone(other))

\* Both calls have returned pairs, for different streams.
C12_Witness ==
    /\ other.on
    /\ pc = "returned" /\ other.pc = "returned"
    /\ Len(ret.pairs) = 2 /\ Len(other.ret.pairs) = 1
    /\ input # other.input

\* s is a flat object: a root object whose values are all scalars.
FlatObject(s) ==
    /\ Len(s) >= 2 /\ Len(s) % 2 = 0
    /\ s[1] = lbrace /\ s[Len(s)] = rbrace
    /\ \A i \in 2..(Len(s) - 1) :
          IF i % 2 = 0 THEN s[i].t = "string" /\ s[i].v \in Keys
          ELSE s[i] \in Scalars

\* C13: a flat object flattens to one pair per entry, in entry order, with
\* the entry's key as Key and the entry's value as Value.
C13_FlatObjectUnchanged ==
    (ReturnedOK /\ FlatObject(input))
        => ret.pairs = [i \in 1..((Len(input) - 2) \div 2) |->
                           [Key |-> input[2 * i].v, Value |-> input[2 * i + 1]]]

\* A flat object of three entries was flattened.
C13_Witness ==
    /\ ReturnedOK
    /\ FlatObject(input)
    /\ Len(input) = 8
    /\ Len(ret.pairs) = 3

\* The frame of the innermost open container before the last step, in the
\* reference flattening.
TopFrame == Last(Ref(input).stack)

\* C14: a scalar element of an array preceded by k elements of that array,
\* of whatever type, is emitted with the index segment [k].
C14_IndexCountsEveryElement ==
    [][(FirstDocStep /\ Last(input') \in Scalars /\ Top(dec) = "[")
        => /\ Len(pairs') = Len(pairs) + 1
           /\ EndsWith(Last(pairs').Key, IndexSeg(TopFrame.n))]_vars

\* C15: closing an object or array that has had at least one child emits no
\* pair.
C15_NonEmptyCloseEmitsNothing ==
    [][(FirstDocStep /\ Last(input') \in {rbrace, rsquare} /\ TopFrame.n > 0)
        => pairs' = pairs]_vars

\* C16: a token is handled as a map key exactly when it is a key of the
\* innermost open object, so no key string becomes the Value of a pair.
C16_KeyIffObjectKey ==
    [][(dec.docs = 0 /\ input' # input /\ Last(input').t # "delim")
        => /\ onkey <=> dec.key
           /\ \A i \in 1..Len(pairs') : pairs'[i].Value.v \notin Keys]_vars

\* C17: during the walk over a well-formed document pos + 1 is the number
\* of open containers, and pos is -1 again once the root has closed.
C17_DepthIsOpenContainers ==
    (pc = "loop" /\ (dec.docs = 0 \/ OneDocument)) => pos + 1 = Len(dec.open)

\* The length of the first document of the stream s.
FirstDocLen(s) ==
    CHOOSE k \in 1..Len(s) :
        /\ Ref(SubSeq(s, 1, k)).docs = 1
        /\ Ref(SubSeq(s, 1, k - 1)).docs = 0

\* C19: for a stream of two well-formed documents D1 D2 the walk does not
\* panic unless the walk of D2 alone does, and its pairs are the pairs of
\* D1 followed by the pairs parseJSON returns for D2 alone.
C19_SecondDocumentAsAlone ==
    (dec.docs = 2 /\ Len(dec.open) = 0 /\ MaxDocs >= 2)
        => LET k  == FirstDocLen(input)
               d1 == Alone(SubSeq(input, 1, k))
               d2 == Alone(SubSeq(input, k + 1, Len(input)))
           IN  /\ (d1.pc = "loop" /\ d2.pc = "loop") => pc # "panic"
               /\ pc # "panic" => pairs = d1.pairs \o d2.pairs

\* The key of a leaf under k nested objects with the key "a".
DeepKey(k) == Join([i \in 1..k |-> <<"a">>], pathd)

\* C18: the path stack grows by doubling: pos < len(path) after every
\* object-start, at any depth, and the key of a leaf nested under more
\* objects than the stack was allocated for holds all its ancestors.
C18_PathStackGrows ==
    pc = "loop"
        => /\ pos < Len(path)
           /\ \E j \in 0..MaxNest : Len(path) = InitialPathLen * (2 ^ j)
           /\ (Len(input) >= 3 /\ Last(input) \in Scalars
                   /\ OffChain(input) = {Len(input)})
                 => pairs = <<[Key   |-> DeepKey((Len(input) - 1) \div 2),
                               Value |-> Last(input)]>>

\* A leaf under 21 nested objects was emitted, the stack having doubled
\* twice.
C18_Witness ==
    /\ pc = "loop"
    /\ pos = 2 * InitialPathLen
    /\ Len(path) = 4 * InitialPathLen
    /\ Len(pairs) = 1
    /\ Len(pairs[1].Key) = 4 * InitialPathLen + 1

====
